---- MODULE Spec2Model ----
(***************************************************************************)
(* Path navigation over serde_json_borrow::Value (src/src/index.rs).       *)
(*                                                                         *)
(* A Value tree is held in `root`; a chain of `get` calls walks it.  A     *)
(* reference `&Value` is either a position path into `root` or the         *)
(* address of the process-wide `static NULL`.                              *)
(***************************************************************************)
EXTENDS Integers, Sequences, FiniteSets, TLC

\* Largest number of elements / pairs of a generated Array / Object.
MaxLen == 2
\* Largest number of `&` wrapped around a key.
MaxRefDepth == 1
\* Longest chain of get calls whose keys are recorded in `keys`.
MaxChain == 3

VARIABLES
    root,   \* the Value tree the caller holds
    NULL,   \* the static Null the misses refer to
    cur,    \* the reference the chain currently holds
    prev,   \* the reference the last get was called on
    key,    \* the key the last get was called with
    opt,    \* what index_into returned in the last get
    keys,   \* the logical keys of the chain so far (path specification only)
    other,  \* a second Value, compared with root
    eq      \* the result of the last comparison root == other

vars == <<root, NULL, cur, prev, key, opt, keys, other, eq>>

----------------------------------------------------------------------------
(* Cow<'ctx, str>: borrowed or owned string data.                          *)

Borrowed(s) == [own |-> "Borrowed", s |-> s]
Owned(s) == [own |-> "Owned", s |-> s]

\* <Cow<str> as Deref>::deref: the string slice, whichever way it is stored.
CowDeref(c) == c.s

\* Cow::into_owned on a copy: the same bytes, owned.
IntoOwned(c) == Owned(CowDeref(c))

----------------------------------------------------------------------------
(* enum Value<'ctx> { Null, Bool, Number, Str, Array, Object }             *)

NoCow == Borrowed("")

Null == [tag |-> "Null", b |-> FALSE, n |-> 0, s |-> NoCow, vec |-> <<>>, map |-> <<>>]
Bool(b) == [Null EXCEPT !.tag = "Bool", !.b = b]
Number(n) == [Null EXCEPT !.tag = "Number", !.n = n]
Str(c) == [Null EXCEPT !.tag = "Str", !.s = c]
Array(vec) == [Null EXCEPT !.tag = "Array", !.vec = vec]
Object(map) == [Null EXCEPT !.tag = "Object", !.map = map]

\* One (key, value) pair of an Object.
Pair(k, v) == [k |-> k, v |-> v]

\* Value::as_str: the slice of a Str, absent for every other variant.
as_str(v) == IF v.tag = "Str" THEN {CowDeref(v.s)} ELSE {}

\* ValueEq with Objects compared as collections of pairs, whatever their order.
RECURSIVE ValueEq_unordered(_, _)
ValueEq_unordered(x, y) ==
    /\ x.tag = y.tag
    /\ CASE x.tag = "Null" -> TRUE
         [] x.tag = "Bool" -> x.b = y.b
         [] x.tag = "Number" -> x.n = y.n
         [] x.tag = "Str" -> CowDeref(x.s) = CowDeref(y.s)
         [] x.tag = "Array" ->
                /\ Len(x.vec) = Len(y.vec)
                /\ \A i \in 1..Len(x.vec) : ValueEq_unordered(x.vec[i], y.vec[i])
         [] x.tag = "Object" ->
                /\ Len(x.map) = Len(y.map)
                /\ \A i \in 1..Len(x.map) : \E j \in 1..Len(y.map) :
                      /\ CowDeref(x.map[i].k) = CowDeref(y.map[j].k)
                      /\ ValueEq_unordered(x.map[i].v, y.map[j].v)
                /\ \A j \in 1..Len(y.map) : \E i \in 1..Len(x.map) :
                      /\ CowDeref(x.map[i].k) = CowDeref(y.map[j].k)
                      /\ ValueEq_unordered(x.map[i].v, y.map[j].v)

\* Value == Value (derived PartialEq), with Cow compared by content.
RECURSIVE ValueEq(_, _)
ValueEq(x, y) ==
    /\ x.tag = y.tag
    /\ CASE x.tag = "Null" -> TRUE
         [] x.tag = "Bool" -> x.b = y.b
         [] x.tag = "Number" -> x.n = y.n
         [] x.tag = "Str" -> CowDeref(x.s) = CowDeref(y.s)
         [] x.tag = "Array" ->
                /\ Len(x.vec) = Len(y.vec)
                /\ \A i \in 1..Len(x.vec) : ValueEq(x.vec[i], y.vec[i])
         [] x.tag = "Object" ->
                /\ Len(x.map) = Len(y.map)
                /\ \A i \in 1..Len(x.map) :
                      /\ CowDeref(x.map[i].k) = CowDeref(y.map[i].k)
                      /\ ValueEq(x.map[i].v, y.map[i].v)

\* The same tree with every string (keys and Str payloads) owned.
RECURSIVE ToOwned(_)
ToOwned(v) ==
    CASE v.tag = "Str" -> Str(IntoOwned(v.s))
      [] v.tag = "Array" -> Array([i \in 1..Len(v.vec) |-> ToOwned(v.vec[i])])
      [] v.tag = "Object" ->
            Object([i \in 1..Len(v.map) |->
                       Pair(IntoOwned(v.map[i].k), ToOwned(v.map[i].v))])
      [] OTHER -> v

----------------------------------------------------------------------------
(* References &'a Value<'ctx>.                                             *)

\* &NULL, the address of the static.
StaticRef == [static |-> TRUE, at |-> <<>>]
\* The node of root reached by the positions `at` (1-based, one per level).
TreeRef(at) == [static |-> FALSE, at |-> at]
RootRef == TreeRef(<<>>)

RECURSIVE Walk(_, _)
Walk(v, at) ==
    IF at = <<>> THEN v
    ELSE IF v.tag = "Array" THEN Walk(v.vec[Head(at)], Tail(at))
    ELSE Walk(v.map[Head(at)].v, Tail(at))

\* *r
DerefIn(tree, r) == IF r.static THEN NULL ELSE Walk(tree, r.at)
Deref(r) == DerefIn(root, r)

\* The reference to the element at position p of the node r refers to.
ChildRef(r, p) == TreeRef(Append(r.at, p))

----------------------------------------------------------------------------
(* Keys: usize, str, String, Cow<str>, and & of any of these.              *)

KeyUsize(n) == [kind |-> "usize", n |-> n, s |-> "", own |-> "-", refs |-> 0]
KeyStr(s) == [kind |-> "str", n |-> 0, s |-> s, own |-> "-", refs |-> 0]
KeyString(s) == [kind |-> "String", n |-> 0, s |-> s, own |-> "Owned", refs |-> 0]
KeyCow(c) == [kind |-> "Cow", n |-> 0, s |-> c.s, own |-> c.own, refs |-> 0]
\* &k
KeyRef(k) == [k EXCEPT !.refs = @ + 1]
\* The state before any get.
NoKey == [kind |-> "none", n |-> 0, s |-> "", own |-> "-", refs |-> 0]

\* VecGet that answers an index past the end with the last element.
VecGet_clamp(vec, i) ==
    IF i < Len(vec) THEN {i + 1} ELSE IF Len(vec) > 0 THEN {Len(vec)} ELSE {}

\* VecGet as unchecked indexing, &vec[i].
VecGet_unchecked(vec, i) == {i + 1}

\* VecGet that counts positions from one.
VecGet_one_based(vec, i) == IF i >= 1 /\ i <= Len(vec) THEN {i} ELSE {}

\* <[Value]>::get as called at line 45: Some(&vec[i]) when i < len, else None.
\* The result is the set of positions found (empty for None).
VecGet(vec, i) == IF i < Len(vec) THEN {i + 1} ELSE {}

\* index_into for usize that also takes the i-th pair of an Object.
index_into_usize_object(self, v) ==
    IF v.tag = "Array" THEN VecGet(v.vec, self)
    ELSE IF v.tag = "Object" /\ self < Len(v.map) THEN {self + 1}
    ELSE {}

\* impl Index for usize.  An Option<&Value> into v is the set of the positions
\* of v it refers to: empty for None, one position for Some.
index_into_usize(self, v) ==
    IF v.tag = "Array" THEN VecGet(v.vec, self) ELSE {}

\* Find that keeps the last matching pair (rfind, or a map built from the pairs).
RECURSIVE Find_last(_, _, _)
Find_last(map, i, self) ==
    IF i > Len(map) THEN {}
    ELSE LET rest == Find_last(map, i + 1, self) IN
         IF rest # {} THEN rest
         ELSE IF CowDeref(map[i].k) = self THEN {i} ELSE {}

\* Find that passes over the pairs whose value is Null.
RECURSIVE Find_skip_null(_, _, _)
Find_skip_null(map, i, self) ==
    IF i > Len(map) THEN {}
    ELSE IF CowDeref(map[i].k) = self /\ map[i].v.tag # "Null" THEN {i}
    ELSE Find_skip_null(map, i + 1, self)

\* Find that compares the stored Cow with Cow::Borrowed(self), variant included.
RECURSIVE Find_cow_eq(_, _, _)
Find_cow_eq(map, i, self) ==
    IF i > Len(map) THEN {}
    ELSE IF map[i].k = Borrowed(self) THEN {i}
    ELSE Find_cow_eq(map, i + 1, self)

\* map.iter().find(|(k, _v)| *k == self): the first position from i on whose
\* key has the bytes of self.
RECURSIVE Find(_, _, _)
Find(map, i, self) ==
    IF i > Len(map) THEN {}
    ELSE IF CowDeref(map[i].k) = self THEN {i}
    ELSE Find(map, i + 1, self)

\* impl Index for str
index_into_str(self, v) ==
    IF v.tag = "Object" THEN Find(v.map, 1, self) ELSE {}

\* String::as_str
StringAsStr(k) == k.s

\* impl Index for String
index_into_String(self, v) == index_into_str(StringAsStr(self), v)

\* index_into for Cow that looks up borrowed keys only.
index_into_Cow_borrowed_only(self, v) ==
    IF self.own = "Borrowed" THEN index_into_str(self.s, v) ELSE {}

\* impl Index for Cow<'_, str>
index_into_Cow(self, v) ==
    index_into_str(CowDeref([own |-> self.own, s |-> self.s]), v)

\* The impl the key's own type selects.
index_into_base(self, v) ==
    CASE self.kind = "usize" -> index_into_usize(self.n, v)
      [] self.kind = "str" -> index_into_str(self.s, v)
      [] self.kind = "String" -> index_into_String(self, v)
      [] self.kind = "Cow" -> index_into_Cow(self, v)

\* impl<T> Index for &T: (**self).index_into(v)
RECURSIVE index_into_ref(_, _)
index_into_ref(self, v) ==
    IF self.refs > 0
    THEN index_into_ref([self EXCEPT !.refs = @ - 1], v)
    ELSE index_into_base(self, v)

\* The Option<&'a Value> that index_into returns for v = *r.
SomeRefs(r, ps) == {ChildRef(r, p) : p \in ps}

\* Option::unwrap_or(&NULL)
UnwrapOr(o, dflt) == IF o = {} THEN dflt ELSE CHOOSE x \in o : TRUE

\* Value::get: index.index_into(self).unwrap_or(&NULL)
get(r, index) == UnwrapOr(SomeRefs(r, index_into_ref(index, Deref(r))), StaticRef)

----------------------------------------------------------------------------
(* The inputs.                                                             *)

SeqsUpTo(S, n) == UNION {[1..m -> S] : m \in 0..n}

Leaves == {Null, Bool(TRUE), Number(1), Number(2),
           Str(Borrowed("z")), Str(Owned("z"))}
Elems == {Null, Number(1), Str(Borrowed("z"))}
ObjKeys == {Borrowed("a"), Owned("a"), Borrowed("b")}
Pairs == {Pair(k, v) : k \in ObjKeys, v \in Elems}

FlatTrees ==
    Leaves
    \cup {Array(s) : s \in SeqsUpTo(Elems, MaxLen)}
    \cup {Object(m) : m \in SeqsUpTo(Pairs, MaxLen)}

\* The tree of the doc example (lines 18-26).
DocTree ==
    Object(<<Pair(Borrowed("x"),
                  Object(<<Pair(Borrowed("y"),
                                Array(<<Str(Borrowed("z")), Str(Borrowed("zz"))>>))>>))>>)

\* The trees of the tests (lines 102-104, 115-117, 124-126).
TestTreeBorrowed == Object(<<Pair(Borrowed("key"), Str(Borrowed("value")))>>)
TestTreeOwned == Object(<<Pair(Owned("key"), Str(Owned("value")))>>)

\* An Object with a repeated key.
DupTree == Object(<<Pair(Borrowed("a"), Number(1)), Pair(Borrowed("a"), Number(2))>>)

NestedTrees ==
    {DocTree, TestTreeBorrowed, TestTreeOwned, DupTree}
    \cup {Array(<<t>>) : t \in {Array(<<Number(1)>>), Object(<<Pair(Owned("a"), Null)>>)}}
    \cup {Object(<<Pair(Borrowed("a"), t), Pair(Owned("a"), Number(2))>>) :
            t \in {Array(<<Null, Number(1)>>), Object(<<Pair(Borrowed("b"), Str(Owned("z")))>>)}}

Trees == FlatTrees \cup NestedTrees

Indices == 0..MaxLen
KeyStrs == {"a", "b", "key"}
Owns == {"Borrowed", "Owned"}

RECURSIVE Refd(_, _)
Refd(k, d) == IF d = 0 THEN k ELSE Refd(KeyRef(k), d - 1)

----------------------------------------------------------------------------
(* The chain of get calls.                                                 *)

InitChain ==
    /\ NULL = Null
    /\ cur = RootRef
    /\ prev = RootRef
    /\ key = NoKey
    /\ opt = {}
    /\ keys = <<>>
    /\ eq = "unset"

Init ==
    /\ root \in Trees
    /\ other = Null
    /\ InitChain

\* One get on the reference the chain holds; ps is what the key's impl of
\* index_into returned for the node.
Step(k, ps) ==
    /\ prev' = cur
    /\ key' = k
    /\ opt' = SomeRefs(cur, ps)
    /\ cur' = UnwrapOr(SomeRefs(cur, ps), StaticRef)
    /\ UNCHANGED <<root, NULL, other, eq>>

\* v.get(i) with i: usize
GetUsize(i) ==
    /\ Step(KeyUsize(i), index_into_usize(i, Deref(cur)))
    /\ UNCHANGED keys

\* The pair at position p moved to the front of the map.
MoveToFront(map, p) ==
    <<map[p]>> \o SubSeq(map, 1, p - 1) \o SubSeq(map, p + 1, Len(map))

\* GetStr that moves the pair it found to the front of the root Object.
GetStr_move_to_front(s) ==
    LET ps == index_into_str(s, Deref(cur)) IN
    /\ prev' = cur
    /\ key' = KeyStr(s)
    /\ opt' = SomeRefs(cur, ps)
    /\ cur' = UnwrapOr(SomeRefs(cur, ps), StaticRef)
    /\ root' = IF cur = RootRef /\ ps # {}
               THEN Object(MoveToFront(root.map, CHOOSE p \in ps : TRUE))
               ELSE root
    /\ UNCHANGED <<NULL, other, eq, keys>>

\* v.get(s) with s: &str
GetStr(s) ==
    /\ Step(KeyStr(s), index_into_str(s, Deref(cur)))
    /\ UNCHANGED keys

\* v.get(s) with s: String
GetString(s) ==
    /\ Step(KeyString(s), index_into_String(KeyString(s), Deref(cur)))
    /\ UNCHANGED keys

\* v.get(c) with c: Cow<str>
GetCow(c) ==
    /\ Step(KeyCow(c), index_into_Cow(KeyCow(c), Deref(cur)))
    /\ UNCHANGED keys

\* v.get(&k), v.get(&&k), ...
GetRef(k) ==
    /\ k.refs > 0
    /\ Step(k, index_into_ref(k, Deref(cur)))
    /\ UNCHANGED keys

BaseKeys ==
    {KeyUsize(i) : i \in Indices}
    \cup {KeyStr(s) : s \in KeyStrs}
    \cup {KeyString(s) : s \in KeyStrs}
    \cup {KeyCow([own |-> o, s |-> s]) : o \in Owns, s \in KeyStrs}

RefKeys == {Refd(k, d) : k \in BaseKeys, d \in 1..MaxRefDepth}
AllKeys == BaseKeys \cup RefKeys

Next ==
    \/ \E i \in Indices : GetUsize(i)
    \/ \E s \in KeyStrs : GetStr(s)
    \/ \E s \in KeyStrs : GetString(s)
    \/ \E o \in Owns, s \in KeyStrs : GetCow([own |-> o, s |-> s])
    \/ \E k \in RefKeys : GetRef(k)

Spec == Init /\ [][Next]_vars

----------------------------------------------------------------------------
(* Chains whose keys are recorded: data.get(k1).get(k2)...                 *)

PathTrees == NestedTrees
PathStrs == {"x", "y", "a", "b"}

InitPath ==
    /\ root \in PathTrees
    /\ other = Null
    /\ InitChain

\* .get(i) appended to the chain
ChainUsize(i) ==
    /\ Len(keys) < MaxChain
    /\ Step(KeyUsize(i), index_into_usize(i, Deref(cur)))
    /\ keys' = Append(keys, KeyUsize(i))

\* .get(s) appended to the chain
ChainStr(s) ==
    /\ Len(keys) < MaxChain
    /\ Step(KeyStr(s), index_into_str(s, Deref(cur)))
    /\ keys' = Append(keys, KeyStr(s))

NextPath ==
    \/ \E i \in Indices : ChainUsize(i)
    \/ \E s \in PathStrs : ChainStr(s)

SpecPath == InitPath /\ [][NextPath]_vars

----------------------------------------------------------------------------
(* Comparing two Values.                                                   *)

EqElems == {Number(1), Number(2), Str(Borrowed("z")), Str(Owned("z"))}
EqPairs == {Pair(k, v) : k \in ObjKeys, v \in {Number(1), Number(2)}}

EqVals ==
    Leaves
    \cup {Array(s) : s \in SeqsUpTo(EqElems, MaxLen)}
    \cup {Object(m) : m \in SeqsUpTo(EqPairs, MaxLen)}
    \cup {Array(<<t>>) : t \in {Array(<<Number(1)>>), Array(<<Number(2)>>),
                                Object(<<Pair(Borrowed("a"), Null)>>),
                                Object(<<Pair(Owned("a"), Null)>>)}}

InitEq ==
    /\ root \in EqVals
    /\ other \in EqVals
    /\ InitChain

\* root == other
Compare ==
    /\ eq = "unset"
    /\ eq' = IF ValueEq(root, other) THEN "eq" ELSE "ne"
    /\ UNCHANGED <<root, NULL, cur, prev, key, opt, keys, other>>

NextEq == Compare

SpecEq == InitEq /\ [][NextEq]_vars

----------------------------------------------------------------------------
(* Vocabulary of the properties.                                           *)

\* A get has been made.
Called == key.kind # "none"
\* The node the last get was called on, and the node it returned.
Node == Deref(prev)
Result == Deref(cur)

IsIndexKey(k) == k.kind = "usize"
IsStringKey(k) == k.kind \in {"str", "String", "Cow"}

Variants == {"Null", "Bool", "Number", "Str", "Array", "Object"}

NumChildren(v) ==
    IF v.tag = "Array" THEN Len(v.vec)
    ELSE IF v.tag = "Object" THEN Len(v.map)
    ELSE 0

Child(v, p) == IF v.tag = "Array" THEN v.vec[p] ELSE v.map[p].v

Min(S) == CHOOSE x \in S : \A y \in S : x <= y

\* The positions of the pairs of an Object whose key is the string s.
Matches(v, s) == {i \in 1..Len(v.map) : v.map[i].k.s = s}

\* The three ways a key addresses nothing in v.
KindMismatch(v, k) ==
    \/ IsIndexKey(k) /\ v.tag # "Array"
    \/ IsStringKey(k) /\ v.tag # "Object"
OutOfRange(v, k) == IsIndexKey(k) /\ v.tag = "Array" /\ k.n >= Len(v.vec)
NoSuchKey(v, k) == IsStringKey(k) /\ v.tag = "Object" /\ Matches(v, k.s) = {}
Absent(v, k) == KindMismatch(v, k) \/ OutOfRange(v, k) \/ NoSuchKey(v, k)

\* The position of the child of v that k addresses, if any.
ChildAt(v, k) ==
    IF Absent(v, k) THEN {}
    ELSE IF IsIndexKey(k) THEN {k.n + 1}
    ELSE {Min(Matches(v, k.s))}

\* The position paths that the key path ks addresses from v: one if every
\* step hits, none otherwise.
RECURSIVE Addressed(_, _)
Addressed(v, ks) ==
    IF ks = <<>> THEN {<<>>}
    ELSE UNION {{<<p>> \o at : at \in Addressed(Child(v, p), Tail(ks))} :
                  p \in ChildAt(v, Head(ks))}

\* at is a path of positions that exist in v.
RECURSIVE ValidAt(_, _)
ValidAt(v, at) ==
    \/ at = <<>>
    \/ /\ Head(at) \in 1..NumChildren(v)
       /\ ValidAt(Child(v, Head(at)), Tail(at))

ValidRef(r) == r.static \/ ValidAt(root, r.at)

\* The same tree with every string (keys and Str payloads) borrowed.
RECURSIVE ToBorrowed(_)
ToBorrowed(v) ==
    CASE v.tag = "Str" -> Str(Borrowed(CowDeref(v.s)))
      [] v.tag = "Array" -> Array([i \in 1..Len(v.vec) |-> ToBorrowed(v.vec[i])])
      [] v.tag = "Object" ->
            Object([i \in 1..Len(v.map) |->
                       Pair(Borrowed(CowDeref(v.map[i].k)), ToBorrowed(v.map[i].v))])
      [] OTHER -> v

----------------------------------------------------------------------------
(* The properties.                                                         *)

\* C1: get with a string key on an Object returns the value of the first pair,
\* in stored order, whose key equals it, also when later pairs repeat the key
\* ([("a",1),("a",2)] gives 1); with no such pair it returns the Null sentinel.
C1_ObjectFirstMatch ==
    (Called /\ IsStringKey(key) /\ Node.tag = "Object") =>
        LET ms == Matches(Node, key.s) IN
        /\ ms = {} => (cur = StaticRef /\ Result = Null)
        /\ ms # {} => /\ cur = ChildRef(prev, Min(ms))
                      /\ Result = Node.map[Min(ms)].v
        /\ (ValueEq(Node, DupTree) /\ key.s = "a") => ValueEq(Result, Number(1))

C1_Witness ==
    /\ Called /\ IsStringKey(key) /\ Node.tag = "Object"
    /\ \E i, j \in Matches(Node, key.s) :
          /\ i < j
          /\ ~ValueEq(Node.map[i].v, Node.map[j].v)
          /\ cur = ChildRef(prev, i)

\* C2: get with an integer key i on an Array of length n returns the element
\* at position i when i < n and the Null sentinel when i >= n (also for n = 0).
C2_ArrayBounds ==
    (Called /\ IsIndexKey(key) /\ Node.tag = "Array") =>
        IF key.n < Len(Node.vec)
        THEN cur = ChildRef(prev, key.n + 1) /\ Result = Node.vec[key.n + 1]
        ELSE cur = StaticRef /\ Result = Null

C2_Witness ==
    /\ Called /\ IsIndexKey(key) /\ Node.tag = "Array"
    /\ Len(Node.vec) = 2 /\ key.n = 1
    /\ cur = ChildRef(prev, 2)

\* C3: a key whose kind does not fit the node's variant gives the Null
\* sentinel, and once the chain holds the sentinel every later get, with any
\* key, returns the sentinel again.
C3_MissPropagation ==
    /\ []((Called /\ KindMismatch(Node, key)) => (cur = StaticRef /\ Result = Null))
    /\ [][cur = StaticRef => cur' = StaticRef]_vars

C3_Witness ==
    /\ Called /\ prev = StaticRef /\ cur = StaticRef
    /\ IsStringKey(key) /\ root.tag = "Object"

\* C4: a string key gives the same result as a &str, a String, a Cow or a
\* reference of any depth to one of them, and an integer key by reference the
\* same as by value.
C4_KeyKindTransparency ==
    Called =>
        /\ IsIndexKey(key) =>
              /\ opt = SomeRefs(prev, index_into_usize(key.n, Node))
              /\ cur = get(prev, KeyUsize(key.n))
        /\ IsStringKey(key) =>
              /\ opt = SomeRefs(prev, index_into_str(key.s, Node))
              /\ cur = get(prev, KeyStr(key.s))
        /\ (root \in {TestTreeBorrowed, TestTreeOwned} /\ prev = RootRef /\ key.s = "key")
              => as_str(Result) = {"value"}

C4_Witness ==
    /\ Called /\ key.kind = "Cow" /\ key.own = "Owned" /\ key.refs > 0
    /\ prev = RootRef /\ as_str(Result) = {"value"}

\* C5: get always returns a reference to a Value, a child of the node or the
\* Null sentinel; a wrong variant, a missing key and an index out of range
\* all give the sentinel.
C5_Totality ==
    /\ ValidRef(cur)
    /\ Result.tag \in Variants
    /\ Called =>
          /\ \/ cur = StaticRef
             \/ \E p \in 1..NumChildren(Node) : cur = ChildRef(prev, p)
          /\ Absent(Node, key) => (cur = StaticRef /\ Result = Null)

C5_Witness ==
    /\ Called /\ Node.tag = "Array" /\ Len(Node.vec) = MaxLen
    /\ IsIndexKey(key) /\ key.n = MaxLen /\ cur = StaticRef

\* C6: a chain of get calls returns the node the key path addresses when
\* every step hits and the Null sentinel when a step misses; in the doc
\* example x/y/0 is "z", x/y/1 is "zz", x/y/2, a and a/b are Null.
C6_PathResolution ==
    /\ Addressed(root, keys) = {} => (cur = StaticRef /\ Result = Null)
    /\ \A at \in Addressed(root, keys) : cur = TreeRef(at) /\ Result = Walk(root, at)
    /\ root = DocTree =>
          /\ keys = <<KeyStr("x"), KeyStr("y"), KeyUsize(0)>>
                => ValueEq(Result, Str(Borrowed("z")))
          /\ keys = <<KeyStr("x"), KeyStr("y"), KeyUsize(1)>>
                => ValueEq(Result, Str(Borrowed("zz")))
          /\ keys = <<KeyStr("x"), KeyStr("y"), KeyUsize(2)>> => ValueEq(Result, Null)
          /\ keys = <<KeyStr("a")>> => ValueEq(Result, Null)
          /\ keys = <<KeyStr("a"), KeyStr("b")>> => ValueEq(Result, Null)

C6_Witness ==
    /\ root = DocTree
    /\ keys = <<KeyStr("x"), KeyStr("y"), KeyUsize(1)>>
    /\ cur = TreeRef(<<1, 1, 2>>)

\* C7: no get changes the tree (its pairs and elements keep their number and
\* order) or the static Null, which is always Null.
C7_NothingChanges ==
    /\ [](NULL = Null)
    /\ [][root' = root /\ NULL' = NULL]_vars

C7_Witness ==
    /\ Called /\ prev = StaticRef /\ cur = StaticRef
    /\ root = DupTree /\ NULL = Null

\* C8: two Values are equal iff they have the same variant and recursively
\* equal payloads, in the same order: Array([1,2]) # Array([2,1]) and
\* Object([("a",1),("b",2)]) # Object([("b",2),("a",1)]).
C8_StructuralEquality ==
    eq # "unset" =>
        /\ (eq = "eq") <=> (ToOwned(root) = ToOwned(other))
        /\ (root = Array(<<Number(1), Number(2)>>) /\ other = Array(<<Number(2), Number(1)>>))
              => eq = "ne"
        /\ (/\ root = Object(<<Pair(Borrowed("a"), Number(1)), Pair(Borrowed("b"), Number(2))>>)
            /\ other = Object(<<Pair(Borrowed("b"), Number(2)), Pair(Borrowed("a"), Number(1))>>))
              => eq = "ne"

C8_Witness ==
    /\ eq = "ne"
    /\ root = Object(<<Pair(Borrowed("a"), Number(1)), Pair(Borrowed("b"), Number(2))>>)
    /\ other = Object(<<Pair(Borrowed("b"), Number(2)), Pair(Borrowed("a"), Number(1))>>)

\* C9: a Value with borrowed strings and one with owned copies of the same
\* bytes are equal, as_str gives the same content for both, and get with a
\* given key finds the same child in both.
C9_BorrowedOwnedTransparency ==
    LET o == ToOwned(Node)
        b == ToBorrowed(Node) IN
    /\ ValueEq(b, o) /\ ValueEq(o, b) /\ ValueEq(Node, o) /\ ValueEq(Node, b)
    /\ as_str(b) = as_str(o) /\ as_str(Node) = as_str(o)
    /\ Called =>
          /\ index_into_ref(key, b) = index_into_ref(key, o)
          /\ index_into_ref(key, Node) = index_into_ref(key, o)
          /\ opt = SomeRefs(prev, index_into_ref(key, o))
          /\ ValueEq(Result, ToOwned(Result))
          /\ as_str(Result) = as_str(ToOwned(Result))

C9_Witness ==
    /\ Called /\ IsStringKey(key) /\ Node.tag = "Object"
    /\ \E p \in 1..Len(Node.map) :
          /\ Node.map[p].k = Owned(key.s)
          /\ cur = ChildRef(prev, p)
          /\ Result.tag = "Str" /\ Result.s.own = "Borrowed"

\* C10: index_into is None exactly for a wrong variant, an index >= the Array
\* length or a key no pair has; otherwise it is the addressed child itself,
\* also a stored Null.  get gives Null for a present Null child and for an
\* absent one: get on {"a": null} and on {} with key "a" are equal.
C10_AbsenceReporting ==
    Called =>
        /\ (opt = {}) <=> Absent(Node, key)
        /\ opt = {} => (cur = StaticRef /\ ValueEq(Result, Null))
        /\ opt # {} =>
              /\ opt = {cur}
              /\ ~cur.static
              /\ \A p \in ChildAt(Node, key) :
                    cur = ChildRef(prev, p) /\ Result = Child(Node, p)
        /\ (opt # {} /\ Child(Node, Min(ChildAt(Node, key))).tag = "Null")
              => ValueEq(Result, Null)
        /\ (IsStringKey(key) /\ key.s = "a") =>
              /\ ValueEq(Node, Object(<<Pair(Borrowed("a"), Null)>>))
                    => (opt # {} /\ ValueEq(Result, Null))
              /\ ValueEq(Node, Object(<<>>)) => (opt = {} /\ ValueEq(Result, Null))

C10_Witness ==
    /\ Called /\ opt # {} /\ ~cur.static
    /\ Result.tag = "Null"
    /\ ValueEq(Node, Object(<<Pair(Borrowed("a"), Null)>>))

====
